---- MODULE Spec2Model ----
(***************************************************************************)
(* Speaker-attributed transcript generation (transcript_gen_logic.py, and  *)
(* the same logic inlined in video_transcriber.py).                        *)
(*                                                                         *)
(* Times are integers counting ticks of 0.05 s, the largest unit in which  *)
(* both thresholds of the program (0.3 s and 0.25 s) are whole numbers.    *)
(* A word's midpoint (start + end) / 2 may fall between two ticks, so the  *)
(* model carries twice the midpoint and doubles the segment boundaries it  *)
(* is compared with.  Arithmetic is exact: the rounding of binary floats   *)
(* is not modelled.                                                        *)
(*                                                                         *)
(* A JSON object is a function whose DOMAIN is the set of its keys, so a   *)
(* record that lacks a key is a value of the model.  A string the program  *)
(* joins or formats is a sequence of one-character strings; a speaker      *)
(* label is an opaque string.                                              *)
(***************************************************************************)
EXTENDS Integers, Sequences, FiniteSets, TLC

VARIABLES
    transcription_json,   \* the file transcription.json: [exists, content]
    diarization_json,     \* the file diarization.json:   [exists, content]
    pc,                   \* position of generate_transcript
    transcription,        \* local of generate_transcript (line 89)
    speaker_segments,     \* local of generate_transcript (lines 89, 90)
    word_timestamps,      \* local of generate_transcript (line 91)
    word_speakers,        \* local of generate_transcript (lines 94-115)
    final_transcript,     \* local of generate_transcript (lines 118-141)
    final_transcript_txt, \* the file final_transcript.txt: [opened, lines]
    call,                 \* arguments of a direct call of one function
    ret                   \* what that call returned

vars == <<transcription_json, diarization_json, pc, transcription,
          speaker_segments, word_timestamps, word_speakers, final_transcript,
          final_transcript_txt, call, ret>>

pipeline_vars == <<transcription_json, diarization_json, pc, transcription,
                   speaker_segments, word_timestamps, word_speakers,
                   final_transcript, final_transcript_txt>>

----------------------------------------------------------------------------
(* Program constants, in ticks of 0.05 s.                                  *)

\* filter_short_segments(segments, threshold=0.3)
DefaultThreshold == 6

\* if gap < 0.25
SmoothGap == 5

\* closest_speaker = "Unknown"
Unknown == "Unknown"

----------------------------------------------------------------------------
(* Bounds of the model.                                                    *)

\* longest word list in transcription.json
MaxWords == 3

\* longest segment list in diarization.json
MaxSegs == 2

\* latest tick of a word or segment handed to a function called directly
MaxTime == 2

\* longest segment list handed to a function called directly
MaxCallSegs == 2

\* how far the durations handed to the filter lie around the threshold
MaxSlack == 1

----------------------------------------------------------------------------
(* Python values.                                                          *)

\* d.get(k, default)
Get(d, k, default) == IF k \in DOMAIN d THEN d[k] ELSE default

\* k in d
Has(d, k) == k \in DOMAIN d

\* a call that returned v
Return(v) == [raised |-> FALSE, value |-> v]

\* a call that raised KeyError
KeyError == [raised |-> TRUE, value |-> "KeyError"]

\* float('inf') and a finite float
Inf == [finite |-> FALSE, val |-> 0]

Fin(d) == [finite |-> TRUE, val |-> d]

\* dist < min_dist
Less(dist, min_dist) == (~min_dist.finite) \/ dist < min_dist.val

\* None and a value that is not None
None == <<>>

Some(v) == <<v>>

\* " ".join(words)
RECURSIVE Join(_)
Join(words) ==
    IF Len(words) = 0 THEN <<>>
    ELSE IF Len(words) = 1 THEN words[1]
    ELSE words[1] \o <<" ">> \o Join(Tail(words))

SeqsUpTo(S, n) == UNION {[1..k -> S] : k \in 0..n}

----------------------------------------------------------------------------
(* filter_short_segments                                                   *)

\* the test written with > for >=
SegmentIsKeptStrict(s, threshold) == (s.end - s.start) > threshold

\* the test of the comprehension; s['end'] or s['start'] raises KeyError
\* when the key is absent
SegmentIsKept(s, threshold) == (s.end - s.start) >= threshold

RECURSIVE FilterLoop(_, _, _, _)
FilterLoop(segments, threshold, k, acc) ==
    IF k > Len(segments) THEN Return(acc)
    ELSE IF ~(Has(segments[k], "end") /\ Has(segments[k], "start")) THEN KeyError
    ELSE FilterLoop(segments, threshold, k + 1,
                    IF SegmentIsKept(segments[k], threshold)
                    THEN Append(acc, segments[k]) ELSE acc)

filter_short_segments(segments, threshold) ==
    FilterLoop(segments, threshold, 1, <<>>)

\* video_transcriber.py: the loop that collects the diarization turns
RECURSIVE CollectTurns(_, _, _)
CollectTurns(turns, k, acc) ==
    IF k > Len(turns) THEN acc
    ELSE IF turns[k].end - turns[k].start < DefaultThreshold
         THEN CollectTurns(turns, k + 1, acc)
         ELSE CollectTurns(turns, k + 1,
                  Append(acc, [start |-> turns[k].start, end |-> turns[k].end,
                               speaker |-> turns[k].speaker]))

----------------------------------------------------------------------------
(* get_speaker_improved                                                    *)

\* seg['start'] <= word_mid <= seg['end'], with word_mid2 = 2 * word_mid
MidpointInside(word_mid2, seg) ==
    2 * seg.start <= word_mid2 /\ word_mid2 <= 2 * seg.end

\* pass 1: the index of the first segment that holds the midpoint, else 0
RECURSIVE ExactPass(_, _, _)
ExactPass(word_mid2, segments, k) ==
    IF k > Len(segments) THEN 0
    ELSE IF MidpointInside(word_mid2, segments[k]) THEN k
    ELSE ExactPass(word_mid2, segments, k + 1)

\* the distance from the word interval to the segment interval
Distance(word_start, word_end, seg) ==
    IF word_end < seg.start THEN seg.start - word_end
    ELSE IF word_start > seg.end THEN word_start - seg.end
    ELSE 0

\* the update written with <= for <: the last of the nearest wins
ImprovesOrTies(dist, min_dist) == (~min_dist.finite) \/ dist <= min_dist.val

\* if dist < min_dist
Improves(dist, min_dist) == Less(dist, min_dist)

\* pass 2: the loop over the segments, acc = (closest_speaker, min_dist)
RECURSIVE ClosestPass(_, _, _, _, _)
ClosestPass(word_start, word_end, segments, k, acc) ==
    IF k > Len(segments) THEN acc
    ELSE LET dist == Distance(word_start, word_end, segments[k])
         IN  IF Improves(dist, acc.min_dist)
             THEN IF Has(segments[k], "speaker")
                  THEN ClosestPass(word_start, word_end, segments, k + 1,
                           [closest_speaker |-> segments[k].speaker,
                            min_dist |-> Fin(dist), raised |-> FALSE])
                  ELSE [acc EXCEPT !.raised = TRUE]
             ELSE ClosestPass(word_start, word_end, segments, k + 1, acc)

\* min_dist started at 0 instead of float('inf')
ClosestStartAtZero ==
    [closest_speaker |-> Unknown, min_dist |-> Fin(0), raised |-> FALSE]

ClosestStart == [closest_speaker |-> Unknown, min_dist |-> Inf, raised |-> FALSE]

\* the function without its first pass
get_speaker_nearest_only(word_start, word_end, segments) ==
    LET near == ClosestPass(word_start, word_end, segments, 1, ClosestStart)
    IN  IF near.raised THEN KeyError ELSE Return(near.closest_speaker)

get_speaker_improved(word_start, word_end, segments) ==
    LET word_mid2 == word_start + word_end
        hit == ExactPass(word_mid2, segments, 1)
        near == ClosestPass(word_start, word_end, segments, 1, ClosestStart)
    IN  IF hit # 0
        THEN IF Has(segments[hit], "speaker")
             THEN Return(segments[hit].speaker) ELSE KeyError
        ELSE IF near.raised THEN KeyError
        ELSE Return(near.closest_speaker)

\* video_transcriber.py: the same two passes, the overlap case left to dist = 0
get_speaker_for_word(word_start, word_end, segments) ==
    LET word_mid2 == word_start + word_end
        hit == ExactPass(word_mid2, segments, 1)
        near == ClosestPass(word_start, word_end, segments, 1, ClosestStart)
    IN  IF hit # 0
        THEN IF Has(segments[hit], "speaker")
             THEN Return(segments[hit].speaker) ELSE KeyError
        ELSE IF near.raised THEN KeyError
        ELSE Return(near.closest_speaker)

----------------------------------------------------------------------------
(* generate_transcript, step 1: assign initial speakers                    *)

\* w_start = word_data.get('start', word_data.get('start_offset', 0))
WordStart(word_data) == Get(word_data, "start", Get(word_data, "start_offset", 0))

\* w_end = word_data.get('end', word_data.get('end_offset', 0))
WordEnd(word_data) == Get(word_data, "end", Get(word_data, "end_offset", 0))

RECURSIVE AssignLoop(_, _, _, _)
AssignLoop(words, segments, k, acc) ==
    IF k > Len(words) THEN Return(acc)
    ELSE LET w_start == WordStart(words[k])
             w_end == WordEnd(words[k])
             speaker == get_speaker_improved(w_start, w_end, segments)
         IN  IF speaker.raised \/ ~Has(words[k], "word") THEN KeyError
             ELSE AssignLoop(words, segments, k + 1,
                      Append(acc, [word |-> words[k].word, start |-> w_start,
                                   end |-> w_end, speaker |-> speaker.value]))

AssignSpeakers(words, segments) == AssignLoop(words, segments, 1, <<>>)

----------------------------------------------------------------------------
(* generate_transcript, step 2: smooth speakers                            *)

\* the threshold of the comment above the loop, "Gap < 0.1s"
GapIsTightStale(prev, curr) == curr.start - prev.end < 2

\* if gap < 0.25, with gap = curr['start'] - prev['end']
GapIsTight(prev, curr) == curr.start - prev.end < SmoothGap

\* for i in range(1, len(word_speakers)); i is 1-based here
RECURSIVE SmoothLoop(_, _)
SmoothLoop(ws, i) ==
    IF i > Len(ws) THEN ws
    ELSE SmoothLoop(IF GapIsTight(ws[i - 1], ws[i])
                    THEN [ws EXCEPT ![i].speaker = ws[i - 1].speaker]
                    ELSE ws,
                    i + 1)

\* each pair compared on the labels the aligner gave, without propagation
SmoothAgainstOriginal(ws) ==
    [i \in 1..Len(ws) |->
        IF i >= 2 /\ GapIsTight(ws[i - 1], ws[i])
        THEN [ws[i] EXCEPT !.speaker = ws[i - 1].speaker]
        ELSE ws[i]]

SmoothSpeakers(ws) == SmoothLoop(ws, 2)

----------------------------------------------------------------------------
(* generate_transcript, step 3: build the final transcript                 *)

Utterance(current_speaker, current_sentence) ==
    [speaker |-> current_speaker[1], text |-> Join(current_sentence)]

\* an iteration that closes the utterance at every word
GroupStepPerWord(st, item) ==
    [final_transcript |->
         IF st.current_speaker # None
         THEN Append(st.final_transcript,
                     Utterance(st.current_speaker, st.current_sentence))
         ELSE st.final_transcript,
     current_speaker |-> Some(item.speaker),
     current_sentence |-> <<item.word>>]

\* one iteration of `for item in word_speakers`
\* st = [final_transcript, current_speaker, current_sentence]
GroupStep(st, item) ==
    IF Some(item.speaker) # st.current_speaker
    THEN [final_transcript |->
              IF st.current_speaker # None
              THEN Append(st.final_transcript,
                          Utterance(st.current_speaker, st.current_sentence))
              ELSE st.final_transcript,
          current_speaker |-> Some(item.speaker),
          current_sentence |-> <<item.word>>]
    ELSE [st EXCEPT !.current_sentence = Append(@, item.word)]

RECURSIVE GroupLoop(_, _, _)
GroupLoop(ws, k, st) ==
    IF k > Len(ws) THEN st
    ELSE GroupLoop(ws, k + 1, GroupStep(st, ws[k]))

\* the loop's last sentence never appended
FlushLastForgotten(st) == st.final_transcript

\* if current_sentence: final_transcript.append(...)
FlushLast(st) ==
    IF Len(st.current_sentence) > 0
    THEN Append(st.final_transcript,
                Utterance(st.current_speaker, st.current_sentence))
    ELSE st.final_transcript

BuildTranscript(ws) ==
    FlushLast(GroupLoop(ws, 1, [final_transcript |-> <<>>,
                                current_speaker |-> None,
                                current_sentence |-> <<>>]))

\* f"[{line['speaker']}]: {line['text']}\n"
FormatLine(line) == <<"[", line.speaker, "]", ":", " ">> \o line.text \o <<"\n">>

----------------------------------------------------------------------------
(* The files the program reads.                                            *)

Speakers == {"SPEAKER_00", "SPEAKER_01"}

\* word records of transcription.json: two plain ones a tight gap apart, one
\* that carries its times under the alias keys (a stray start_offset beside
\* start), one without any timing key, one without its text
WordRecords ==
    { [word |-> <<"h", "i">>, start |-> 5, end |-> 6],
      [word |-> <<"y", "o", "u">>, start |-> 10, end |-> 11],
      [word |-> <<"o", "k">>, start_offset |-> 16, end_offset |-> 17],
      [word |-> <<"u", "m">>],
      [start |-> 0, end |-> 1] }

\* segment records of diarization.json: three long enough to be kept (the
\* first exactly as long as the threshold), one a tick too short, one
\* without its end, one without its speaker
SegmentRecords ==
    { [start |-> 0, end |-> 6, speaker |-> "SPEAKER_00"],
      [start |-> 6, end |-> 12, speaker |-> "SPEAKER_01"],
      [start |-> 13, end |-> 19, speaker |-> "SPEAKER_00"],
      [start |-> 2, end |-> 7, speaker |-> "SPEAKER_01"],
      [start |-> 0, speaker |-> "SPEAKER_00"],
      [start |-> 0, end |-> 6] }

Missing == [exists |-> FALSE, content |-> <<>>]

File(content) == [exists |-> TRUE, content |-> content]

TranscriptionFiles ==
    {Missing, File([text |-> "-"])}
    \cup {File([text |-> "-", timestamps |-> w]) : w \in SeqsUpTo(WordRecords, MaxWords)}

DiarizationFiles ==
    {Missing} \cup {File(s) : s \in SeqsUpTo(SegmentRecords, MaxSegs)}

\* no function is being called directly
NoCall == [fn |-> "none"]

NotReturned == [fn |-> "none", raised |-> FALSE, value |-> <<>>]

\* well-formed segments on the ticks 0..MaxTime
CallSegments ==
    { g \in [start : 0..MaxTime, end : 0..MaxTime, speaker : Speakers] :
          g.start <= g.end }

\* well-formed segments whose durations lie around the default threshold
FilterSegmentsPool ==
    { [start |-> s, end |-> s + d, speaker |-> sp] :
          s \in 0..MaxSlack,
          d \in (DefaultThreshold - MaxSlack)..(DefaultThreshold + MaxSlack),
          sp \in Speakers }

Thresholds == (DefaultThreshold - MaxSlack)..DefaultThreshold

SpeakerCalls ==
    { [fn |-> "speaker", word_start |-> w[1], word_end |-> w[2], segments |-> g] :
          w \in {v \in (0..MaxTime) \X (0..MaxTime) : v[1] <= v[2]},
          g \in SeqsUpTo(CallSegments, MaxCallSegs) }

FilterCalls ==
    { [fn |-> "filter", segments |-> g, threshold |-> t] :
          g \in SeqsUpTo(FilterSegmentsPool, MaxCallSegs), t \in Thresholds }

----------------------------------------------------------------------------
(* generate_transcript as a state machine, one action per stage.           *)

Init ==
    /\ transcription_json \in TranscriptionFiles
    /\ diarization_json \in DiarizationFiles
    /\ pc = "start"
    /\ transcription = <<>>
    /\ speaker_segments = <<>>
    /\ word_timestamps = <<>>
    /\ word_speakers = <<>>
    /\ final_transcript = <<>>
    /\ final_transcript_txt = [opened |-> FALSE, lines |-> <<>>]
    /\ call = NoCall
    /\ ret = NotReturned

\* transcription, speaker_segments = load_data()
load_data ==
    /\ pc = "start"
    /\ IF transcription_json.exists /\ diarization_json.exists
       THEN /\ transcription' = transcription_json.content
            /\ speaker_segments' = diarization_json.content
            /\ pc' = "filter"
       ELSE /\ pc' = "error"
            /\ UNCHANGED <<transcription, speaker_segments>>
    /\ UNCHANGED <<transcription_json, diarization_json, word_timestamps,
                   word_speakers, final_transcript, final_transcript_txt,
                   call, ret>>

\* lines 90-91
FilterSegments ==
    /\ pc = "filter"
    /\ LET kept == filter_short_segments(speaker_segments, DefaultThreshold)
       IN  IF kept.raised
           THEN /\ pc' = "error"
                /\ UNCHANGED <<speaker_segments, word_timestamps>>
           ELSE /\ speaker_segments' = kept.value
                /\ word_timestamps' = Get(transcription, "timestamps", <<>>)
                /\ pc' = "assign"
    /\ UNCHANGED <<transcription_json, diarization_json, transcription,
                   word_speakers, final_transcript, final_transcript_txt,
                   call, ret>>

\* the words given a speaker before the assignment fails
AssignedPrefix(words, segments) ==
    LET k == CHOOSE n \in 0..Len(words) :
                 /\ ~AssignSpeakers(SubSeq(words, 1, n), segments).raised
                 /\ \A m \in (n + 1)..Len(words) :
                        AssignSpeakers(SubSeq(words, 1, m), segments).raised
    IN  AssignSpeakers(SubSeq(words, 1, k), segments).value

\* the assignment writing a line of the output file for each word it labels
AssignWritingAsItGoes ==
    /\ pc = "assign"
    /\ LET assigned == AssignSpeakers(word_timestamps, speaker_segments)
           labelled == AssignedPrefix(word_timestamps, speaker_segments)
       IN  /\ IF assigned.raised
              THEN /\ pc' = "error"
                   /\ UNCHANGED word_speakers
              ELSE /\ word_speakers' = assigned.value
                   /\ pc' = "smooth"
           /\ final_transcript_txt' =
                  [opened |-> TRUE,
                   lines |-> [i \in 1..Len(labelled) |->
                                 FormatLine([speaker |-> labelled[i].speaker,
                                             text |-> labelled[i].word])]]
    /\ UNCHANGED <<transcription_json, diarization_json, transcription,
                   speaker_segments, word_timestamps, final_transcript,
                   call, ret>>

\* lines 93-104
Assign ==
    /\ pc = "assign"
    /\ LET assigned == AssignSpeakers(word_timestamps, speaker_segments)
       IN  IF assigned.raised
           THEN /\ pc' = "error"
                /\ UNCHANGED word_speakers
           ELSE /\ word_speakers' = assigned.value
                /\ pc' = "smooth"
    /\ UNCHANGED <<transcription_json, diarization_json, transcription,
                   speaker_segments, word_timestamps, final_transcript,
                   final_transcript_txt, call, ret>>

\* lines 106-115
Smooth ==
    /\ pc = "smooth"
    /\ word_speakers' = SmoothSpeakers(word_speakers)
    /\ pc' = "build"
    /\ UNCHANGED <<transcription_json, diarization_json, transcription,
                   speaker_segments, word_timestamps, final_transcript,
                   final_transcript_txt, call, ret>>

\* lines 117-141
Build ==
    /\ pc = "build"
    /\ final_transcript' = BuildTranscript(word_speakers)
    /\ pc' = "save"
    /\ UNCHANGED <<transcription_json, diarization_json, transcription,
                   speaker_segments, word_timestamps, word_speakers,
                   final_transcript_txt, call, ret>>

\* with open("final_transcript.txt", "w") as f
OpenOutput ==
    /\ pc = "save"
    /\ final_transcript_txt' = [opened |-> TRUE, lines |-> <<>>]
    /\ pc' = "write"
    /\ UNCHANGED <<transcription_json, diarization_json, transcription,
                   speaker_segments, word_timestamps, word_speakers,
                   final_transcript, call, ret>>

\* for line in final_transcript: f.write(...)
WriteLine ==
    /\ pc = "write"
    /\ Len(final_transcript_txt.lines) < Len(final_transcript)
    /\ final_transcript_txt' =
           [final_transcript_txt EXCEPT !.lines =
                Append(@, FormatLine(final_transcript[Len(@) + 1]))]
    /\ UNCHANGED <<transcription_json, diarization_json, pc, transcription,
                   speaker_segments, word_timestamps, word_speakers,
                   final_transcript, call, ret>>

\* the file is closed; print("\nSaved to final_transcript.txt")
Saved ==
    /\ pc = "write"
    /\ Len(final_transcript_txt.lines) = Len(final_transcript)
    /\ pc' = "done"
    /\ UNCHANGED <<transcription_json, diarization_json, transcription,
                   speaker_segments, word_timestamps, word_speakers,
                   final_transcript, final_transcript_txt, call, ret>>

Next ==
    \/ load_data
    \/ FilterSegments
    \/ Assign
    \/ Smooth
    \/ Build
    \/ OpenOutput
    \/ WriteLine
    \/ Saved

Spec == Init /\ [][Next]_vars

----------------------------------------------------------------------------
(* The functions called directly, one call per behaviour.                  *)

CallsInit ==
    /\ transcription_json = Missing
    /\ diarization_json = Missing
    /\ pc = "idle"
    /\ transcription = <<>>
    /\ speaker_segments = <<>>
    /\ word_timestamps = <<>>
    /\ word_speakers = <<>>
    /\ final_transcript = <<>>
    /\ final_transcript_txt = [opened |-> FALSE, lines |-> <<>>]
    /\ call \in SpeakerCalls \cup FilterCalls
    /\ ret = NotReturned

Returned(fn, result) == [fn |-> fn, raised |-> result.raised, value |-> result.value]

CallGetSpeakerImproved ==
    /\ call.fn = "speaker"
    /\ ret.fn = "none"
    /\ ret' = Returned("get_speaker_improved",
                   get_speaker_improved(call.word_start, call.word_end, call.segments))
    /\ UNCHANGED <<pipeline_vars, call>>

CallGetSpeakerForWord ==
    /\ call.fn = "speaker"
    /\ ret.fn = "none"
    /\ ret' = Returned("get_speaker_for_word",
                   get_speaker_for_word(call.word_start, call.word_end, call.segments))
    /\ UNCHANGED <<pipeline_vars, call>>

CallFilterShortSegments ==
    /\ call.fn = "filter"
    /\ ret.fn = "none"
    /\ ret' = Returned("filter_short_segments",
                   filter_short_segments(call.segments, call.threshold))
    /\ UNCHANGED <<pipeline_vars, call>>

CallCollectTurns ==
    /\ call.fn = "filter"
    /\ ret.fn = "none"
    /\ ret' = Returned("collect_turns", Return(CollectTurns(call.segments, 1, <<>>)))
    /\ UNCHANGED <<pipeline_vars, call>>

CallsNext ==
    \/ CallGetSpeakerImproved
    \/ CallGetSpeakerForWord
    \/ CallFilterShortSegments
    \/ CallCollectTurns

SpecCalls == CallsInit /\ [][CallsNext]_vars

----------------------------------------------------------------------------
(* What the claims speak of.                                               *)

\* generate_transcript has finished step 1, step 2, step 3
AfterAssign == {"smooth", "build", "save", "write", "done"}

AfterSmooth == {"build", "save", "write", "done"}

AfterBuild == {"save", "write", "done"}

\* text.split(" "): the words a joined text is made of
RECURSIVE SplitLoop(_, _, _, _)
SplitLoop(text, k, token, acc) ==
    IF k > Len(text) THEN Append(acc, token)
    ELSE IF text[k] = " " THEN SplitLoop(text, k + 1, <<>>, Append(acc, token))
    ELSE SplitLoop(text, k + 1, Append(token, text[k]), acc)

Split(text) == SplitLoop(text, 1, <<>>, <<>>)

\* the words of the utterances 1..k, in order
RECURSIVE WordsOf(_, _)
WordsOf(utterances, k) ==
    IF k = 0 THEN <<>>
    ELSE WordsOf(utterances, k - 1) \o Split(utterances[k].text)

\* how many words the utterances before utterance k hold
WordsBefore(utterances, k) == Len(WordsOf(utterances, k - 1))

\* the label the aligner gives word i of word_speakers
Aligned(i) ==
    get_speaker_improved(word_speakers[i].start, word_speakers[i].end,
                         speaker_segments).value

\* the gap before word i of word_speakers is below 0.25 s
Tight(i) == word_speakers[i].start - word_speakers[i - 1].end < SmoothGap

\* the first word of the maximal run of tight gaps that word i lies in
RunStart(i) ==
    CHOOSE j \in 1..i :
        /\ \A m \in (j + 1)..i : Tight(m)
        /\ (j = 1 \/ ~Tight(j))

\* the midpoint of the called word lies in segment i of the call
CallInside(i) ==
    /\ 2 * call.segments[i].start <= call.word_start + call.word_end
    /\ call.word_start + call.word_end <= 2 * call.segments[i].end

\* the gap distance from the called word to segment i of the call
CallGap(i) ==
    IF call.word_end < call.segments[i].start
    THEN call.segments[i].start - call.word_end
    ELSE IF call.word_start > call.segments[i].end
    THEN call.word_start - call.segments[i].end
    ELSE 0

SpeakerReturned == ret.fn \in {"get_speaker_improved", "get_speaker_for_word"}

\* out holds, in order and unaltered, exactly the segments of inp whose
\* duration is at least threshold
KeepsExactly(out, inp, threshold) ==
    LET kept == {i \in 1..Len(inp) : inp[i].end - inp[i].start >= threshold}
    IN  /\ Len(out) = Cardinality(kept)
        /\ \A i \in kept : out[Cardinality({j \in kept : j <= i})] = inp[i]

----------------------------------------------------------------------------
(* The claims.                                                             *)

\* C1: the words of all utterances of the final transcript, concatenated in
\* utterance order, are exactly the input words' texts in their original
\* order: no word is dropped, duplicated or reordered.
C1_GroupingIsLossless ==
    pc \in AfterBuild =>
        WordsOf(final_transcript, Len(final_transcript))
            = [i \in 1..Len(word_timestamps) |-> word_timestamps[i].word]

\* three words in two utterances, all three written out
C1_Witness ==
    /\ pc = "done"
    /\ Len(word_timestamps) = 3
    /\ Len(final_transcript_txt.lines) = 2
    /\ word_timestamps[1].word # word_timestamps[2].word

\* C2 as stated: a word whose midpoint lies within a segment S receives the
\* speaker of S, whichever segment S of the sequence that is.
C2_AnyContainingSegmentWins ==
    SpeakerReturned =>
        \A i \in 1..Len(call.segments) :
            CallInside(i) => ret.value = call.segments[i].speaker

\* C2 as amended: a word whose midpoint lies within a segment receives the
\* speaker of the first segment, in sequence order, that holds the midpoint,
\* even where an earlier segment is as near by boundary distance.
C2_FirstContainingSegmentWins ==
    SpeakerReturned =>
        \A i \in 1..Len(call.segments) :
            (CallInside(i) /\ \A j \in 1..(i - 1) : ~CallInside(j))
                => (~ret.raised /\ ret.value = call.segments[i].speaker)

\* the second segment holds the midpoint, the first only touches the word
\* (distance 0) and carries another label
C2_Witness ==
    /\ ret.fn = "get_speaker_improved"
    /\ Len(call.segments) = 2
    /\ CallInside(2) /\ ~CallInside(1)
    /\ CallGap(1) = 0
    /\ call.segments[1].speaker # call.segments[2].speaker
    /\ ret.value = call.segments[2].speaker

\* C3: after alignment and after smoothing, a word is labelled "Unknown" only
\* if the segment collection handed to the aligner is empty; when it is
\* empty every word is labelled "Unknown", and when it is not every word
\* carries the label of one of its segments.
C3_UnknownOnlyWithoutSegments ==
    pc \in AfterAssign =>
        \A i \in 1..Len(word_speakers) :
            /\ speaker_segments = <<>> => word_speakers[i].speaker = Unknown
            /\ speaker_segments # <<>> =>
                   \E k \in 1..Len(speaker_segments) :
                       /\ Has(speaker_segments[k], "speaker")
                       /\ word_speakers[i].speaker = speaker_segments[k].speaker
            /\ word_speakers[i].speaker = Unknown => speaker_segments = <<>>

\* a word whose midpoint no segment holds has been given a segment's label
C3_Witness ==
    /\ pc = "done"
    /\ speaker_segments # <<>>
    /\ \E i \in 1..Len(word_speakers) :
           /\ ExactPass(word_speakers[i].start + word_speakers[i].end,
                        speaker_segments, 1) = 0
           /\ word_speakers[i].speaker \in Speakers

\* C4 as stated: generate_transcript gets past the assignment of speakers
\* only if every segment has start and end, and every word has start or
\* start_offset, and end or end_offset.
C4_MissingTimingFails ==
    pc \in AfterAssign =>
        /\ \A k \in 1..Len(diarization_json.content) :
               /\ Has(diarization_json.content[k], "start")
               /\ Has(diarization_json.content[k], "end")
        /\ \A i \in 1..Len(word_timestamps) :
               /\ Has(word_timestamps[i], "start") \/ Has(word_timestamps[i], "start_offset")
               /\ Has(word_timestamps[i], "end") \/ Has(word_timestamps[i], "end_offset")

C6_FilterKeepsExactlyLongSegments ==
    /\ ret.fn = "filter_short_segments" =>
           /\ ~ret.raised
           /\ KeepsExactly(ret.value, call.segments, call.threshold)
    /\ ret.fn = "collect_turns" =>
           KeepsExactly(ret.value, call.segments, DefaultThreshold)

\* of two segments the shorter is dropped, the one as long as the default
\* threshold is kept
C6_Witness ==
    /\ ret.fn = "filter_short_segments"
    /\ call.threshold = DefaultThreshold
    /\ Len(call.segments) = 2
    /\ Len(ret.value) = 1
    /\ ret.value[1] = call.segments[2]
    /\ ret.value[1].end - ret.value[1].start = DefaultThreshold

\* C7: each utterance is a maximal run of consecutive smoothed words of one
\* speaker: its words carry its speaker, consecutive utterances differ in
\* speaker, there are at most as many utterances as words, as many only
\* when every adjacent pair of words differs in speaker, and none for no
\* words.
C7_UtterancesAreMaximalRuns ==
    pc \in AfterBuild =>
        LET n == Len(word_speakers)
            m == Len(final_transcript)
        IN  /\ WordsBefore(final_transcript, m + 1) = n
            /\ \A u \in 1..m :
                   /\ WordsBefore(final_transcript, u) < WordsBefore(final_transcript, u + 1)
                   /\ \A i \in (WordsBefore(final_transcript, u) + 1)
                                  ..WordsBefore(final_transcript, u + 1) :
                          word_speakers[i].speaker = final_transcript[u].speaker
            /\ \A u \in 1..(m - 1) :
                   final_transcript[u].speaker # final_transcript[u + 1].speaker
            /\ m <= n
            /\ m = n => \A i \in 2..n :
                            word_speakers[i].speaker # word_speakers[i - 1].speaker
            /\ n = 0 => m = 0

\* three words, the first two of one speaker, the third of another
C7_Witness ==
    /\ pc = "done"
    /\ Len(word_speakers) = 3
    /\ Len(final_transcript) = 2
    /\ word_speakers[1].speaker = word_speakers[2].speaker
    /\ word_speakers[2].speaker # word_speakers[3].speaker

\* C8: the output file is opened and written only once the whole utterance
\* sequence is built; when a stage fails it has not been opened, and no
\* line of it has been written.
C8_OutputIsAllOrNothing ==
    /\ pc = "error" =>
           /\ ~final_transcript_txt.opened
           /\ final_transcript_txt.lines = <<>>
    /\ (final_transcript_txt.opened \/ final_transcript_txt.lines # <<>>) =>
           /\ pc \in {"write", "done"}
           /\ Len(word_speakers) = Len(word_timestamps)
           /\ final_transcript = BuildTranscript(word_speakers)
           /\ Len(final_transcript_txt.lines) <= Len(final_transcript)
           /\ \A k \in 1..Len(final_transcript_txt.lines) :
                  final_transcript_txt.lines[k] = FormatLine(final_transcript[k])

\* the assignment of speakers failed at the second word, after the first
\* had been given its speaker
C8_Witness ==
    /\ pc = "error"
    /\ Len(word_timestamps) >= 2
    /\ ~AssignSpeakers(SubSeq(word_timestamps, 1, 1), speaker_segments).raised
    /\ AssignSpeakers(SubSeq(word_timestamps, 1, 2), speaker_segments).raised
    /\ final_transcript_txt.lines = <<>>

\* C9: when no segment holds the midpoint and there are segments, the word
\* receives the speaker of the earliest segment whose gap distance to the
\* word is the smallest; the word [2.0, 2.1] between the segments
\* [0, 1, A] and [3, 4, B] receives B.
C9_NearestSegmentFirstWins ==
    /\ (SpeakerReturned /\ call.segments # <<>>
            /\ \A j \in 1..Len(call.segments) : ~CallInside(j)) =>
           \E i \in 1..Len(call.segments) :
               /\ \A j \in 1..Len(call.segments) : CallGap(i) <= CallGap(j)
               /\ \A j \in 1..(i - 1) : CallGap(j) > CallGap(i)
               /\ ~ret.raised
               /\ ret.value = call.segments[i].speaker
    /\ get_speaker_improved(40, 42,
           << [start |-> 0, end |-> 20, speaker |-> "A"],
              [start |-> 60, end |-> 80, speaker |-> "B"] >>) = Return("B")
    /\ get_speaker_for_word(40, 42,
           << [start |-> 0, end |-> 20, speaker |-> "A"],
              [start |-> 60, end |-> 80, speaker |-> "B"] >>) = Return("B")

\* two segments as far from the word, with different labels: the first wins
C9_Witness ==
    /\ ret.fn = "get_speaker_improved"
    /\ Len(call.segments) = 2
    /\ ~CallInside(1) /\ ~CallInside(2)
    /\ CallGap(1) = CallGap(2) /\ CallGap(1) > 0
    /\ call.segments[1].speaker # call.segments[2].speaker
    /\ ret.value = call.segments[1].speaker

====
